---- MODULE Spec2Model ----
(***************************************************************************)
(* Model of tipgstac's route-override factory (src/tipgstac/factory.py):   *)
(* the four request handlers items, item, get_search and post_search.      *)
(*                                                                         *)
(* A request is served by one cooperative task.  A handler runs from its   *)
(* entry to its single `await` of the backend (collection.features or      *)
(* pgstac_search), is suspended there, and runs from the backend's answer  *)
(* to its return.  Each of these two runs is one action.                   *)
(*                                                                         *)
(* Encoding of Python values:                                              *)
(*   - an Optional value is a sequence of length <= 1: None is <<>> and a  *)
(*     value x is <<x>> (so that None, "" and [] stay distinct);           *)
(*   - a dict is a function whose DOMAIN is its key set;                   *)
(*   - request.query_params (a starlette QueryParams multi-dict) is the    *)
(*     sequence of its [k, v] pairs, in the order of the query string;     *)
(*   - the sortby text is a sequence of one-character strings.             *)
(*                                                                         *)
(* The module also models the settings of src/tipgstac/settings.py and the *)
(* route table that the factory's register_routes builds.                  *)
(***************************************************************************)
EXTENDS Integers, Sequences, FiniteSets, TLC

VARIABLES
    pc,      \* "idle" | "awaiting" | "done": the task's position
    req,     \* the request being served (handler name and parameters)
    calls,   \* the backend calls issued for this request, in order
    env,     \* Optional: the envelope the backend answered with
    resp,    \* the handler's outcome: a response or a raised error
    environ, \* Optional: the text of TIPG_STAC_CORS_ORIGINS in the environment
    settings,\* Optional: the APISettings object, once it is loaded
    router   \* self.router.routes: the registered routes, in order

vars == <<pc, req, calls, env, resp, environ, settings, router>>

\* What no request handler writes.
config == <<environ, settings, router>>

------------------------------------------------------------------------------
(* Bounds of the model. *)

MaxQueryParams == 3
MaxItems == 2
MaxSortLen == 3
MaxOriginsLen == 3

------------------------------------------------------------------------------
(* Python values. *)

None == <<>>
Some(x) == <<x>>
IsNone(o) == o = <<>>
Val(o) == o[1]

RECURSIVE SeqsUpTo(_, _)
SeqsUpTo(S, n) ==
    IF n = 0 THEN {<<>>}
    ELSE LET shorter == SeqsUpTo(S, n - 1)
         IN  shorter \cup {Append(s, x) : s \in {t \in shorter : Len(t) = n - 1}, x \in S}

Range(s) == {s[i] : i \in 1..Len(s)}

------------------------------------------------------------------------------
(* Media types (tipg.resources.enums.MediaType), as the handlers name them. *)

MediaTypes == {"geojson", "html", "csv", "json", "geojsonseq", "ndjson"}
OutputTypes == {None} \cup {Some(m) : m \in MediaTypes}

\* `output_type = output_type or MediaType.geojson`
ResolveOutputType(output_type) ==
    IF IsNone(output_type) THEN "geojson" ELSE Val(output_type)

\* `geom_as_wkt = output_type not in [geojson, geojsonseq, html]`
GeomAsWkt(output_type) == output_type \notin {"geojson", "geojsonseq", "html"}

\* Mutant: NDJSON left out of the flattened output types.
IsRowsTypeWithoutNdjson(output_type) == output_type \in {"csv", "json"}

\* `if output_type in (MediaType.csv, MediaType.json, MediaType.ndjson)`
IsRowsType(output_type) == output_type \in {"csv", "json", "ndjson"}

------------------------------------------------------------------------------
(* Query strings.  QueryParams keeps the list of pairs (`_list`) and the   *)
(* dict built from it (`_dict`): one entry per key, at the position of the *)
(* key's first pair, holding the value of its last pair.  `dict(qp)` and   *)
(* `{**qp}` read the keys and values of `_dict`.                           *)

Pair(k, v) == [k |-> k, v |-> v]

Keys(d) == {d[i].k : i \in 1..Len(d)}

LastValue(qs, key) ==
    LET idx == {i \in 1..Len(qs) : qs[i].k = key}
    IN  qs[CHOOSE i \in idx : \A j \in idx : j <= i].v

RECURSIVE ToDict(_)
ToDict(qs) ==
    IF qs = <<>> THEN <<>>
    ELSE LET init == SubSeq(qs, 1, Len(qs) - 1)
             last == qs[Len(qs)]
             d    == ToDict(init)
         IN  IF last.k \in Keys(d)
             THEN [i \in 1..Len(d) |-> IF d[i].k = last.k THEN last ELSE d[i]]
             ELSE Append(d, last)

\* `{**d, key: value}`: an existing key keeps its place, a new key goes last.
DictSet(d, key, value) ==
    IF key \in Keys(d)
    THEN [i \in 1..Len(d) |-> IF d[i].k = key THEN Pair(key, value) ELSE d[i]]
    ELSE Append(d, Pair(key, value))

\* `d.pop(key)` of a key that is present.
DictPop(d, key) == SelectSeq(d, LAMBDA p : p.k /= key)

\* A scalar Query(...) parameter as FastAPI reads it from the query string:
\* absent without the key, else the value of the key's last pair.
QueryValue(qs, key) ==
    IF key \in Keys(qs) THEN Some(LastValue(qs, key)) ELSE None

------------------------------------------------------------------------------
(* Responses and errors. *)

NoRequest == [handler |-> "none"]
NoResponse == [status |-> "none"]

\* An exception leaving the handler: no response body is produced.
Raise(error, message) == [status |-> "error", error |-> error, message |-> message]

\* A returned response: its class, media type, attachment name and content.
\* `shape` names what the content is: "rows" (a sequence of flattened rows),
\* "row" (one flattened row), "FeatureCollection", "Feature" (one document)
\* or "features" (feature documents streamed one per line).
Respond(class, media, filename, shape, body) ==
    [status |-> "ok", class |-> class, media |-> media, filename |-> filename,
     shape |-> shape, body |-> body]

\* Mutant: the failure of the backend call caught and answered with an empty
\* JSON body.
PropagateSwallowed(call) == Respond("ORJSONResponse", "json", None, "rows", <<>>)

\* The awaited backend call raises inside a handler that has no try/except:
\* the backend's error leaves the handler as it is.
Propagate(call) == Raise("BackendError", <<call.fn>>)

\* A link {href, rel, type, title}; href is url_for(route, **args) followed,
\* when `query` is not empty, by "?" and the encoded pairs of `query`.
Href(route, args, query) == [route |-> route, args |-> args, query |-> query]
Link(rel, href, type, title) == [rel |-> rel, href |-> href, type |-> type, title |-> title]

------------------------------------------------------------------------------
(* Features.  A feature is a dict; f.get(key) is None for a missing key.   *)

Get(f, key) == IF key \in DOMAIN f THEN f[key] ELSE None

\* `f.get("properties", {})`
Properties(f) == IF "properties" \in DOMAIN f THEN f["properties"] ELSE <<>>

\* Mutant: the row kept as it is, None values included.
DropNothing(d) == d

\* `{k: v for k, v in d.items() if v is not None}`
DropNone(d) == [k \in {j \in DOMAIN d : ~IsNone(d[j])} |-> d[k]]

\* The row of one feature in items, get_search and post_search:
\* {"collectionId": ..., "itemId": f.get("id"), **properties,
\*  "geometry": f.get("geometry", None)} without its None values.  A later
\* key of the literal overrides an earlier one.
FlatRow(collectionId, f) ==
    DropNone(("geometry" :> Get(f, "geometry"))
             @@ Properties(f)
             @@ ("collectionId" :> collectionId) @@ ("itemId" :> Get(f, "id")))

------------------------------------------------------------------------------
(* Pagination links. *)

\* `if next_token := item_list["next"]`: the token is tested for truth.
HasNext(envelope) == ~IsNone(envelope.next) /\ Val(envelope.next) /= ""

\* `if item_list["prev"] is not None`
HasPrev(envelope) == ~IsNone(envelope.prev)

\* Mutant: `{"offset": next_token, **request.query_params}`, the request's
\* own offset overriding the new token.
NextQueryParamsRequestWins(qs, next_token) ==
    IF "offset" \in Keys(ToDict(qs)) THEN ToDict(qs)
    ELSE Append(ToDict(qs), Pair("offset", next_token))

\* `QueryParams({**request.query_params, "offset": next_token})`
NextQueryParams(qs, next_token) == DictSet(ToDict(qs), "offset", next_token)

\* `qp = dict(request.query_params); qp.pop("offset")` raises KeyError when
\* the request has no offset parameter.
PrevRaises(qs) == "offset" \notin Keys(ToDict(qs))

\* Mutant: the new offset added to the pairs without removing the old one.
PrevQueryParamsKeepsOld(qs, prev_token) ==
    Append(ToDict(qs), Pair("offset", prev_token))

\* `QueryParams({**qp, "offset": prev_token})` after the pop.
PrevQueryParams(qs, prev_token) ==
    DictSet(DictPop(ToDict(qs), "offset"), "offset", prev_token)

\* The next and prev links of a page, appended to `links` in this order.
PagingLinks(route, args, qs, envelope) ==
    (IF HasNext(envelope)
     THEN <<Link("next", Href(route, args, NextQueryParams(qs, Val(envelope.next))),
                 "application/geo+json", Some("Next page"))>>
     ELSE <<>>)
    \o
    (IF HasPrev(envelope)
     THEN <<Link("prev", Href(route, args, PrevQueryParams(qs, Val(envelope.prev))),
                 "application/geo+json", Some("Previous page"))>>
     ELSE <<>>)

------------------------------------------------------------------------------
(* List Items: GET /collections/{collectionId}/items *)

\* The arguments of `collection.features(...)`.
ItemsCall(r) ==
    [fn |-> "features", collection |-> r.collection.id,
     ids_filter |-> r.ids_filter, bbox_filter |-> r.bbox_filter,
     datetime_filter |-> r.datetime_filter, cql_filter |-> r.cql_filter,
     sortby |-> r.sortby, properties |-> r.properties, limit |-> r.limit,
     token |-> r.offset, bbox_only |-> r.bbox_only, simplify |-> r.simplify,
     geom_as_wkt |-> GeomAsWkt(ResolveOutputType(r.output_type)),
     query |-> r.query]

ItemsRows(r, envelope) ==
    [i \in 1..Len(envelope.items) |-> FlatRow(Some(r.collection.id), envelope.items[i])]

\* `a or b or c` over Optional strings: the first that is neither None nor "".
FirstTruthy(a, b, c) ==
    IF ~IsNone(a) /\ Val(a) /= "" THEN Val(a)
    ELSE IF ~IsNone(b) /\ Val(b) /= "" THEN Val(b) ELSE c

CollectionLink(collectionId, title) ==
    Link("collection", Href("collection", [collectionId |-> collectionId], <<>>),
         "application/json", title)

ItemsLinks(r, envelope) ==
    <<CollectionLink(r.collection.id, Some("Collection")),
      Link("self", Href("items", [collectionId |-> r.collection.id], r.qs),
           "application/geo+json", Some("Items"))>>
    \o PagingLinks("items", [collectionId |-> r.collection.id], r.qs, envelope)

\* `{**feature, "links": [...]}`
WithLinks(f, links) == ("links" :> links) @@ f

ItemsFeatures(r, envelope) ==
    [i \in 1..Len(envelope.items) |->
        WithLinks(envelope.items[i],
            <<CollectionLink(r.collection.id, Some("Collection")),
              Link("item",
                   Href("item", [collectionId |-> r.collection.id,
                                 itemId |-> Get(envelope.items[i], "id")], <<>>),
                   "application/geo+json", Some("Item"))>>)]

ItemsData(r, envelope) ==
    [type |-> "FeatureCollection",
     id |-> r.collection.id,
     title |-> FirstTruthy(r.collection.title, None, r.collection.id),
     description |-> FirstTruthy(r.collection.description, r.collection.title,
                                 r.collection.id),
     numberMatched |-> envelope.matched,
     numberReturned |-> Len(envelope.items),
     links |-> ItemsLinks(r, envelope),
     features |-> ItemsFeatures(r, envelope)]

\* The handler from the backend's answer to its return.
ItemsResult(r, envelope) ==
    LET output_type == ResolveOutputType(r.output_type)
    IN  IF IsRowsType(output_type)
        THEN IF output_type = "csv"
        THEN Respond("StreamingResponse", "csv", Some("items.csv"), "rows",
                     ItemsRows(r, envelope))
        ELSE IF output_type = "json"
        THEN Respond("ORJSONResponse", "json", None, "rows", ItemsRows(r, envelope))
        ELSE Respond("StreamingResponse", "ndjson", Some("items.ndjson"), "rows",
                     ItemsRows(r, envelope))
        ELSE IF HasPrev(envelope) /\ PrevRaises(r.qs)
        THEN Raise("KeyError", <<"offset">>)
        ELSE IF output_type = "html"
        THEN Respond("TemplateResponse", "html", None, "FeatureCollection",
                     ItemsData(r, envelope))
        ELSE IF output_type = "geojsonseq"
        THEN Respond("StreamingResponse", "geojsonseq", Some("items.geojson"),
                     "features", ItemsData(r, envelope).features)
        ELSE Respond("GeoJSONResponse", "geojson", None, "FeatureCollection",
                     ItemsData(r, envelope))

------------------------------------------------------------------------------
(* Get Single Item: GET /collections/{collectionId}/items/{itemId} *)

\* Mutant: the primary-key check left out.
ItemNoPrimaryKeyUnchecked(r) == FALSE

\* `if collection.id_column is None: raise NoPrimaryKey(...)`
ItemNoPrimaryKey(r) == IsNone(r.collection.id_column)

\* The arguments of `collection.features(...)`.
ItemCall(r) ==
    [fn |-> "features", collection |-> r.collection.id,
     bbox_only |-> r.bbox_only, simplify |-> r.simplify,
     ids_filter |-> Some(<<r.itemId>>), properties |-> r.properties,
     geom_as_wkt |-> GeomAsWkt(ResolveOutputType(r.output_type))]

\* Mutant: a message that names the item alone.
NotFoundMessageItemOnly(r) == <<"Item ", r.itemId, " does not exist.">>

\* f"Item {itemId} in Collection {collection.id} does not exist.", as the
\* sequence of its literal and interpolated parts.
NotFoundMessage(r) ==
    <<"Item ", r.itemId, " in Collection ", r.collection.id, " does not exist.">>

\* The single row: no value is filtered out, and the geometry, when it is
\* not None, is stored as the one-element tuple `(feature["geometry"],)`.
ItemRow(r, feature) ==
    LET row == Properties(feature)
               @@ ("collectionId" :> Some(r.collection.id))
               @@ ("itemId" :> Get(feature, "id"))
    IN  IF ~IsNone(Get(feature, "geometry"))
        THEN ("geometry" :> Some(<<Val(feature["geometry"])>>)) @@ row
        ELSE row

ItemData(r, feature) ==
    WithLinks(feature,
        <<CollectionLink(r.collection.id, None),
          Link("self",
               Href("item", [collectionId |-> r.collection.id,
                             itemId |-> Some(r.itemId)], <<>>),
               "application/geo+json", None)>>)

ItemResult(r, envelope) ==
    LET output_type == ResolveOutputType(r.output_type)
        feature == envelope.items[1]
    IN  IF envelope.items = <<>>
        THEN Raise("NotFound", NotFoundMessage(r))
        ELSE IF IsRowsType(output_type)
        THEN IF output_type = "csv"
        THEN Respond("StreamingResponse", "csv", Some("items.csv"), "rows",
                     <<ItemRow(r, feature)>>)
        ELSE IF output_type = "json"
        THEN Respond("ORJSONResponse", "json", None, "row", ItemRow(r, feature))
        ELSE Respond("StreamingResponse", "ndjson", Some("items.ndjson"), "rows",
                     <<ItemRow(r, feature)>>)
        ELSE IF output_type = "html"
        THEN Respond("TemplateResponse", "html", None, "Feature", ItemData(r, feature))
        ELSE Respond("GeoJSONResponse", "geojson", None, "Feature", ItemData(r, feature))

------------------------------------------------------------------------------
(* GET /search: datetime validation. *)

\* The datetime texts of the model and the instant parse_rfc3339 gives each;
\* the last two are the same instant written with "Z" and with "+00:00".
DatetimeTexts ==
    {"2023-01-01T00:00:00Z", "2024-01-01T00:00:00Z", "2024-01-01T00:00:00+00:00"}

parse_rfc3339(text) ==
    CASE text = "2023-01-01T00:00:00Z" -> 2023
      [] text = "2024-01-01T00:00:00Z" -> 2024
      [] text = "2024-01-01T00:00:00+00:00" -> 2024

\* `x not in ["..", ""]`
IsOpen(part) == part \in {"..", ""}

\* `"/".join(parts)`
RECURSIVE Join(_)
Join(parts) ==
    IF parts = <<>> THEN ""
    ELSE IF Len(parts) = 1 THEN parts[1]
    ELSE parts[1] \o "/" \o Join(Tail(parts))

\* Mutant: `start >= end` in place of `start > end`.
DatetimeErrorRejectsEqual(datetime_filter) ==
    IF IsNone(datetime_filter) \/ Val(datetime_filter) = <<>>
       \/ Len(Val(datetime_filter)) /= 2
    THEN None
    ELSE LET parts == Val(datetime_filter)
         IN  IF IsOpen(parts[1]) /\ IsOpen(parts[2])
             THEN Some("Double open-ended datetime intervals are not allowed.")
             ELSE IF ~IsOpen(parts[1]) /\ ~IsOpen(parts[2])
                     /\ parse_rfc3339(parts[1]) >= parse_rfc3339(parts[2])
             THEN Some("Start datetime cannot be before end datetime.")
             ELSE None

\* The two raises of the interval check; None when neither is taken.
DatetimeError(datetime_filter) ==
    IF IsNone(datetime_filter) \/ Val(datetime_filter) = <<>>
       \/ Len(Val(datetime_filter)) /= 2
    THEN None
    ELSE LET parts == Val(datetime_filter)
         IN  IF IsOpen(parts[1]) /\ IsOpen(parts[2])
             THEN Some("Double open-ended datetime intervals are not allowed.")
             ELSE IF ~IsOpen(parts[1]) /\ ~IsOpen(parts[2])
                     /\ parse_rfc3339(parts[1]) > parse_rfc3339(parts[2])
             THEN Some("Start datetime cannot be before end datetime.")
             ELSE None

\* The value of base_args["datetime"]: the joined text, set only when the
\* list is not empty and the joined text is not empty.
DatetimeArg(datetime_filter) ==
    IF IsNone(datetime_filter) \/ Val(datetime_filter) = <<>>
    THEN None
    ELSE IF Join(Val(datetime_filter)) = "" THEN None
    ELSE Some(Join(Val(datetime_filter)))

------------------------------------------------------------------------------
(* GET /search: sort parsing.  A text is a sequence of characters. *)

NL == "\n"
Whitespace == {" ", NL}

RECURSIVE LStrip(_)
LStrip(s) == IF s /= <<>> /\ Head(s) \in Whitespace THEN LStrip(Tail(s)) ELSE s

RECURSIVE RStrip(_)
RStrip(s) ==
    IF s /= <<>> /\ s[Len(s)] \in Whitespace THEN RStrip(SubSeq(s, 1, Len(s) - 1)) ELSE s

\* `str.strip()`
Strip(s) == LStrip(RStrip(s))

\* `str.split(",")`: always at least one part.
RECURSIVE SplitComma(_)
SplitComma(s) ==
    IF \A i \in 1..Len(s) : s[i] /= ","
    THEN <<s>>
    ELSE LET i == CHOOSE k \in 1..Len(s) : s[k] = "," /\ \A j \in 1..(k - 1) : s[j] /= ","
         IN  <<SubSeq(s, 1, i - 1)>> \o SplitComma(SubSeq(s, i + 1, Len(s)))

\* re.match("^(?P<direction>[+-]?)(?P<prop>.*)$", term): "." matches no line
\* break and "$" matches at the end or before a line break that ends the
\* text, so the match fails exactly when a line break is not the last
\* character.
Matches(term) == \A i \in 1..(Len(term) - 1) : term[i] /= NL

MatchDirection(term) ==
    IF term /= <<>> /\ Head(term) \in {"+", "-"} THEN Head(term) ELSE ""

MatchProp(term) ==
    LET rest == IF term /= <<>> /\ Head(term) \in {"+", "-"} THEN Tail(term) ELSE term
    IN  IF rest /= <<>> /\ rest[Len(rest)] = NL
        THEN SubSeq(rest, 1, Len(rest) - 1) ELSE rest

SortEntry(term) ==
    [field |-> Strip(MatchProp(term)),
     direction |-> IF MatchDirection(term) = "-" THEN "desc" ELSE "asc"]

RECURSIVE SortEntries(_)
SortEntries(terms) ==
    IF terms = <<>> THEN <<>>
    ELSE (IF Matches(Head(terms)) THEN <<SortEntry(Head(terms))>> ELSE <<>>)
         \o SortEntries(Tail(terms))

\* `sort_param` of a sortby text that is not empty.
ParseSortby(sortby) == SortEntries(SplitComma(Strip(sortby)))

------------------------------------------------------------------------------
(* GET /search: request assembly. *)

DefaultFeaturesLimit == 10

\* The `query` texts of the model: an empty text, a URL-encoded JSON object
\* and a text that is not JSON.
QueryTexts == {"", "%7B%22a%22%3A+1%7D", "a"}

unquote_plus(text) ==
    CASE text = "%7B%22a%22%3A+1%7D" -> "{\"a\": 1}"
      [] OTHER -> text

\* json.loads raises JSONDecodeError on a text that is not JSON.
JsonRaises(text) == text /= "{\"a\": 1}"
JsonLoads(text) == [a |-> 1]

\* `json.loads(unquote_plus(query)) if query else query` raises?
QueryRaises(query) ==
    ~IsNone(query) /\ Val(query) /= "" /\ JsonRaises(unquote_plus(Val(query)))

QueryArg(query) ==
    IF ~IsNone(query) /\ Val(query) /= ""
    THEN Some(JsonLoads(unquote_plus(Val(query))))
    ELSE query

\* Mutant: the limit sent as it was supplied, 0 included.
LimitArgAsSupplied(limit) == limit

\* `limit or features_settings.default_features_limit`
LimitArg(limit) == IF limit /= 0 THEN limit ELSE DefaultFeaturesLimit

\* `json.loads(to_cql2(cql_filter))`: the CQL2-JSON form of the syntax tree.
ToCql2Json(ast) == [cql2 |-> ast]

\* `sort_param`, set only `if sortby:` (a text that is not empty).
SortbyArg(sortby) ==
    IF ~IsNone(sortby) /\ Val(sortby) /= <<>> THEN Some(ParseSortby(Val(sortby))) ELSE None

\* Mutant: the names put in the exclude set.
FieldsArgExcludes(properties) ==
    IF ~IsNone(properties) /\ Val(properties) /= <<>>
    THEN Some([include |-> {}, exclude |-> Range(Val(properties))])
    ELSE None

\* `{"include": set(properties), "exclude": set()}`, set only `if properties:`.
FieldsArg(properties) ==
    IF ~IsNone(properties) /\ Val(properties) /= <<>>
    THEN Some([include |-> Range(Val(properties)), exclude |-> {}])
    ELSE None

\* base_args once every conditional key has been set (a key that is not set
\* is shown here with the value None, which `clean` leaves out as well).
BaseArgs(r) ==
    [collections |-> r.collections_filter,
     ids |-> r.ids_filter,
     bbox |-> r.bbox_filter,
     limit |-> Some(LimitArg(r.limit)),
     token |-> r.offset,
     query |-> QueryArg(r.query),
     filter |-> IF IsNone(r.cql_filter) THEN None ELSE Some(ToCql2Json(Val(r.cql_filter))),
     datetime |-> DatetimeArg(r.datetime_filter),
     sortby |-> SortbyArg(r.sortby),
     fields |-> FieldsArg(r.properties)]
    @@ ("filter-lang" :> IF IsNone(r.cql_filter) THEN None ELSE Some("cql2-json"))

\* The keys whose values are lists, the only ones that can equal [].
ListKeys == {"collections", "ids", "bbox", "sortby"}

\* `clean`: the entries with `v is not None and v != []`.
Clean(base_args) ==
    [k \in {j \in DOMAIN base_args :
                /\ ~IsNone(base_args[j])
                /\ ~(j \in ListKeys /\ Val(base_args[j]) = <<>>)}
       |-> Val(base_args[k])]

\* The call `pgstac_search(pool, search=PgSTACSearch.model_validate(clean))`,
\* recorded with the assembled arguments.
GetSearchCall(r) == [fn |-> "pgstac_search", search |-> Clean(BaseArgs(r))]

\* What get_search raises before its backend call; None when nothing.
GetSearchError(r) ==
    IF ~IsNone(DatetimeError(r.datetime_filter))
    THEN Some(Raise("InvalidDatetime", <<Val(DatetimeError(r.datetime_filter))>>))
    ELSE IF QueryRaises(r.query)
    THEN Some(Raise("JSONDecodeError", <<Val(r.query)>>))
    ELSE None

------------------------------------------------------------------------------
(* GET /search and POST /search: the response. *)

GetSearchRows(envelope) ==
    [i \in 1..Len(envelope.items) |->
        FlatRow(Get(envelope.items[i], "collection"), envelope.items[i])]

PostSearchRows(envelope) ==
    [i \in 1..Len(envelope.items) |->
        FlatRow(Get(envelope.items[i], "collection"), envelope.items[i])]

SearchFeatures(envelope) ==
    [i \in 1..Len(envelope.items) |->
        LET feature == envelope.items[i]
        IN  WithLinks(feature,
                <<CollectionLink(Val(feature["collection"]), Some("Collection")),
                  Link("item",
                       Href("item", [collectionId |-> Val(feature["collection"]),
                                     itemId |-> feature["id"]], <<>>),
                       "application/geo+json", Some("Item"))>>)]

\* `description` is json.dumps({**request.query_params}).
SearchData(r, envelope) ==
    [type |-> "FeatureCollection",
     description |-> ToDict(r.qs),
     numberMatched |-> envelope.matched,
     numberReturned |-> Len(envelope.items),
     links |-> PagingLinks("get_search", <<>>, r.qs, envelope),
     features |-> SearchFeatures(envelope)]

GetSearchResult(r, envelope) ==
    LET output_type == ResolveOutputType(r.output_type)
    IN  IF IsRowsType(output_type)
        THEN IF output_type = "csv"
        THEN Respond("StreamingResponse", "csv", Some("items.csv"), "rows",
                     GetSearchRows(envelope))
        ELSE IF output_type = "json"
        THEN Respond("ORJSONResponse", "json", None, "rows", GetSearchRows(envelope))
        ELSE Respond("StreamingResponse", "ndjson", Some("items.ndjson"), "rows",
                     GetSearchRows(envelope))
        ELSE IF HasPrev(envelope) /\ PrevRaises(r.qs)
        THEN Raise("KeyError", <<"offset">>)
        ELSE IF output_type = "html"
        THEN Respond("TemplateResponse", "html", None, "FeatureCollection",
                     SearchData(r, envelope))
        ELSE IF output_type = "geojsonseq"
        THEN Respond("StreamingResponse", "geojsonseq", Some("search.geojson"),
                     "features", SearchData(r, envelope).features)
        ELSE Respond("GeoJSONResponse", "geojson", None, "FeatureCollection",
                     SearchData(r, envelope))

\* The call `pgstac_search(pool, search=search)` with the request's body.
PostSearchCall(r) == [fn |-> "pgstac_search", search |-> r.search]

PostSearchResult(r, envelope) ==
    LET output_type == ResolveOutputType(r.output_type)
    IN  IF IsRowsType(output_type)
        THEN IF output_type = "csv"
        THEN Respond("StreamingResponse", "csv", Some("items.csv"), "rows",
                     PostSearchRows(envelope))
        ELSE IF output_type = "json"
        THEN Respond("ORJSONResponse", "json", None, "rows", PostSearchRows(envelope))
        ELSE Respond("StreamingResponse", "ndjson", Some("items.ndjson"), "rows",
                     PostSearchRows(envelope))
        ELSE IF HasPrev(envelope) /\ PrevRaises(r.qs)
        THEN Raise("KeyError", <<"offset">>)
        ELSE IF output_type = "html"
        THEN Respond("TemplateResponse", "html", None, "FeatureCollection",
                     SearchData(r, envelope))
        ELSE IF output_type = "geojsonseq"
        THEN Respond("StreamingResponse", "geojsonseq", Some("search.geojson"),
                     "features", SearchData(r, envelope).features)
        ELSE Respond("GeoJSONResponse", "geojson", None, "FeatureCollection",
                     SearchData(r, envelope))

------------------------------------------------------------------------------
(* API settings (src/tipgstac/settings.py).  A text is a sequence of       *)
(* characters, as in the sort parsing.                                     *)

\* `cors_origins: str = "*"`
DefaultCorsOrigins == <<"*">>

\* Mutant: the parts of the split kept untrimmed.
ParseCorsOriginUntrimmed(v) == SplitComma(v)

\* `[origin.strip() for origin in v.split(",")]`
parse_cors_origin(v) == [i \in 1..Len(SplitComma(v)) |-> Strip(SplitComma(v)[i])]

\* APISettings(): each field is read from the environment (prefix
\* TIPG_STAC_) or takes its default; BaseSettings validates defaults too
\* (validate_default), so the validator also runs on the default "*".
APISettings(cors_origins_text) ==
    [name |-> "TiPg STAC: Use PgSTAC as backend",
     debug |-> FALSE,
     cors_origins |-> parse_cors_origin(IF IsNone(cors_origins_text)
                                        THEN DefaultCorsOrigins
                                        ELSE Val(cors_origins_text)),
     cachecontrol |-> "public, max-age=3600",
     template_directory |-> None]

------------------------------------------------------------------------------
(* Route registration.  A route is one `@self.router.<method>(path)`; its  *)
(* owner tells a handler of the base framework (tipg) from a handler of    *)
(* this factory.  Routes are matched in the order of their registration:   *)
(* the first route whose method and path match serves the request.         *)

Route(method, path, endpoint, owner) ==
    [method |-> method, path |-> path, endpoint |-> endpoint, owner |-> owner]

ItemsRoute == Route("GET", "/collections/{collectionId}/items", "items", "tipgstac")
ItemRoute == Route("GET", "/collections/{collectionId}/items/{itemId}", "item", "tipgstac")
GetSearchRoute == Route("GET", "/search", "get_search", "tipgstac")
PostSearchRoute == Route("POST", "/search", "post_search", "tipgstac")

\* `super().register_routes()`: the base factory registers its collections,
\* collection and queryables routes and then calls self._items_route() and
\* self._item_route(), which are the methods this factory overrides: the
\* base handlers of the two items paths are never registered.
super_register_routes ==
    <<Route("GET", "/collections", "collections", "tipg"),
      Route("GET", "/collections/{collectionId}", "collection", "tipg"),
      Route("GET", "/collections/{collectionId}/queryables", "queryables", "tipg"),
      ItemsRoute, ItemRoute>>

\* `self._searches_routes()`
searches_routes == <<GetSearchRoute, PostSearchRoute>>

\* Mutant: the search routes registered before the call of the base class.
RegisterRoutesSearchesFirst == searches_routes \o super_register_routes

\* `super().register_routes(); self._searches_routes()`
register_routes == super_register_routes \o searches_routes

\* The route that serves a request: the first one that matches.
Matching(routes, method, path) ==
    {i \in 1..Len(routes) : routes[i].method = method /\ routes[i].path = path}

Dispatch(routes, method, path) ==
    routes[CHOOSE i \in Matching(routes, method, path) :
                \A j \in Matching(routes, method, path) : i <= j]

\* The request line of `route` is served by `route` itself.
Served(route) ==
    /\ Matching(router, route.method, route.path) /= {}
    /\ Dispatch(router, route.method, route.path) = route

------------------------------------------------------------------------------
(* The inputs of the model: collections, features, envelopes, requests. *)

Collections ==
    {[id |-> "c1", title |-> t, description |-> d, id_column |-> c] :
        t \in {None, Some("T")}, d \in {None, Some("D")}, c \in {None, Some("id")}}

\* A feature of the backend: always an id and a collection; with a property
\* and a geometry, with a null and an empty property and a null geometry,
\* with a property that is named as a key of the flattened row, or with
\* neither key.
FeatureContents ==
    {[properties |-> [p |-> Some("v")], geometry |-> Some("g")],
     [properties |-> [p |-> None, q |-> Some("")], geometry |-> None],
     [properties |-> [itemId |-> Some("x")], geometry |-> Some("g")],
     <<>>}

CollectionOf(id) == IF id = "i1" THEN "c1" ELSE "c2"

Features ==
    {("id" :> Some(id)) @@ ("collection" :> Some(CollectionOf(id))) @@ c :
        id \in {"i1", "i2"}, c \in FeatureContents}

Envelope(items, matched, next, prev) ==
    [items |-> items, matched |-> matched, next |-> next, prev |-> prev]

\* Pages of up to MaxItems features, with or without a next token.
PageEnvelopes ==
    {Envelope(items, matched, next, None) :
        items \in SeqsUpTo(Features, MaxItems), matched \in {0, 9},
        next \in {None, Some("t2")}}

\* One page under every combination of next and prev token.
TokenEnvelopes ==
    {Envelope(<<CHOOSE f \in Features : f["id"] = Some("i1") /\ "geometry" \notin DOMAIN f>>,
              9, next, prev) :
        next \in {None, Some("t1"), Some("t2")}, prev \in {None, Some("t0"), Some("t3")}}

EmptyEnvelopes == {Envelope(<<>>, 0, None, None)}

\* Query strings of up to MaxQueryParams pairs.
QueryPairs ==
    {Pair("ids", "a"), Pair("ids", "b"), Pair("offset", "t0"), Pair("offset", "t1"),
     Pair("offset", "")}
QueryStrings == SeqsUpTo(QueryPairs, MaxQueryParams)

\* tipg's ids_query on the `ids` Query parameter: a list of the ids.
IdsQuery(qs) ==
    IF IsNone(QueryValue(qs, "ids")) THEN None ELSE Some(<<Val(QueryValue(qs, "ids"))>>)

\* A List Items request whose parameters are those of the query string qs.
ItemsRequestOf(qs, collection, output_type) ==
    [handler |-> "items", qs |-> qs, collection |-> collection,
     ids_filter |-> IdsQuery(qs), bbox_filter |-> None, datetime_filter |-> None,
     properties |-> None, cql_filter |-> None, sortby |-> None, query |-> None,
     limit |-> DefaultFeaturesLimit, offset |-> QueryValue(qs, "offset"),
     bbox_only |-> None, simplify |-> None, output_type |-> output_type]

ItemRequestOf(collection, itemId, output_type) ==
    [handler |-> "item", qs |-> <<>>, collection |-> collection, itemId |-> itemId,
     bbox_only |-> None, simplify |-> None, properties |-> None,
     output_type |-> output_type]

\* The parameters of a GET /search request, as its dependencies resolve them.
NoParams ==
    [collections_filter |-> None, ids_filter |-> None, bbox_filter |-> None,
     datetime_filter |-> None, properties |-> None, cql_filter |-> None,
     sortby |-> None, query |-> None, limit |-> None, offset |-> None]

RECURSIVE JoinComma(_)
JoinComma(names) ==
    IF names = <<>> THEN ""
    ELSE IF Len(names) = 1 THEN names[1]
    ELSE names[1] \o "," \o JoinComma(Tail(names))

LimitText(limit) == IF limit = 0 THEN "0" ELSE "5"

\* The query string that carries the parameters p.
RawQuery(p) ==
    (IF IsNone(p.collections_filter) THEN <<>>
     ELSE <<Pair("collections", JoinComma(Val(p.collections_filter)))>>)
    \o (IF IsNone(p.ids_filter) THEN <<>> ELSE <<Pair("ids", JoinComma(Val(p.ids_filter)))>>)
    \o (IF IsNone(p.bbox_filter) THEN <<>> ELSE <<Pair("bbox", "0,0,1,1")>>)
    \o (IF IsNone(p.datetime_filter) THEN <<>>
        ELSE <<Pair("datetime", Join(Val(p.datetime_filter)))>>)
    \o (IF IsNone(p.properties) THEN <<>>
        ELSE <<Pair("properties", JoinComma(Val(p.properties)))>>)
    \o (IF IsNone(p.cql_filter) THEN <<>> ELSE <<Pair("filter", Val(p.cql_filter))>>)
    \o (IF IsNone(p.sortby) THEN <<>> ELSE <<Pair("sortby", Val(p.sortby))>>)
    \o (IF IsNone(p.query) THEN <<>> ELSE <<Pair("query", Val(p.query))>>)
    \o (IF IsNone(p.limit) THEN <<>> ELSE <<Pair("limit", LimitText(Val(p.limit)))>>)
    \o (IF IsNone(p.offset) THEN <<>> ELSE <<Pair("offset", Val(p.offset))>>)

\* `limit` defaults to features_settings.default_features_limit.
GetSearchRequestOf(qs, p, output_type) ==
    [handler |-> "get_search", qs |-> qs,
     collections_filter |-> p.collections_filter, ids_filter |-> p.ids_filter,
     bbox_filter |-> p.bbox_filter, datetime_filter |-> p.datetime_filter,
     properties |-> p.properties, cql_filter |-> p.cql_filter, sortby |-> p.sortby,
     query |-> p.query,
     limit |-> IF IsNone(p.limit) THEN DefaultFeaturesLimit ELSE Val(p.limit),
     offset |-> p.offset, bbox_only |-> None, simplify |-> None,
     output_type |-> output_type]

\* The parameters a query string of QueryStrings resolves to.
ParamsOf(qs) ==
    [NoParams EXCEPT !.ids_filter = IdsQuery(qs), !.offset = QueryValue(qs, "offset")]

SearchBodies == {[limit |-> 10], [limit |-> 10, collections |-> <<"c1">>, token |-> "t1"]}

PostSearchRequestOf(qs, search, output_type) ==
    [handler |-> "post_search", qs |-> qs, search |-> search,
     output_type |-> output_type]

(* Requests that differ in what is rendered. *)
PageItemsRequests ==
    {ItemsRequestOf(<<>>, c, o) :
        c \in {k \in Collections : ~IsNone(k.description) => ~IsNone(k.title)},
        o \in OutputTypes}
PageItemRequests ==
    {ItemRequestOf(c, i, o) :
        c \in {k \in Collections : IsNone(k.description)}, i \in {"i1", "i9"},
        o \in OutputTypes}
PageGetSearchRequests ==
    {GetSearchRequestOf(<<>>, NoParams, o) : o \in OutputTypes}
    \cup {GetSearchRequestOf(RawQuery(p), p, None) :
            p \in {[NoParams EXCEPT !.datetime_filter = d] :
                     d \in {Some(<<"..", "..">>),
                            Some(<<"2024-01-01T00:00:00Z", "2023-01-01T00:00:00Z">>)}}}
PagePostSearchRequests ==
    {PostSearchRequestOf(<<>>, b, o) : b \in SearchBodies, o \in OutputTypes}

(* Requests that differ in their query string. *)
TokenItemsRequests ==
    {ItemsRequestOf(qs, CHOOSE c \in Collections : IsNone(c.title) /\ IsNone(c.description)
                                                   /\ ~IsNone(c.id_column), o) :
        qs \in QueryStrings, o \in OutputTypes}
TokenGetSearchRequests ==
    {GetSearchRequestOf(qs, ParamsOf(qs), o) : qs \in QueryStrings, o \in OutputTypes}
TokenPostSearchRequests ==
    {PostSearchRequestOf(qs, [limit |-> 10], o) : qs \in QueryStrings, o \in OutputTypes}

(* POST /search requests that differ in their body. *)
BodyPostSearchRequests ==
    {PostSearchRequestOf(qs, b, o) :
        qs \in {<<>>, <<Pair("offset", "t1")>>}, b \in SearchBodies,
        o \in {None, Some("html")}}

(* GET /search requests that differ in the parameters assembled. *)
DatetimeParts == {"..", ""} \cup DatetimeTexts
DatetimeFilters ==
    {None} \cup {Some(<<a>>) : a \in DatetimeParts}
           \cup {Some(<<a, b>>) : a \in DatetimeParts, b \in DatetimeParts}

SortChars == {"a", "b", "-", "+", " ", ",", NL}
SortTexts == {None} \cup {Some(t) : t \in SeqsUpTo(SortChars, MaxSortLen)}

PropertyLists ==
    {None, Some(<<>>), Some(<<"foo">>), Some(<<"foo", "bar">>), Some(<<"bar", "foo">>),
     Some(<<"foo", "foo">>)}

AssemblyParams ==
    {[NoParams EXCEPT !.datetime_filter = d, !.properties = pr] :
        d \in DatetimeFilters, pr \in {None, Some(<<"foo", "bar">>)}}
    \cup {[NoParams EXCEPT !.sortby = t] : t \in SortTexts}
    \cup {[NoParams EXCEPT !.properties = pr, !.limit = l, !.query = q, !.cql_filter = f,
                           !.collections_filter = c, !.offset = t,
                           !.ids_filter = i, !.bbox_filter = b] :
            i \in {None, Some(<<"a", "b">>)}, b \in {None, Some(<<0, 0, 1, 1>>)},
            pr \in PropertyLists, l \in {None, Some(0), Some(5)},
            q \in {None} \cup {Some(x) : x \in QueryTexts},
            f \in {None, Some("ast")},
            c \in {None, Some(<<>>), Some(<<"c1", "c2">>)},
            t \in {None, Some(""), Some("t1")}}

AssemblyGetSearchRequests ==
    {GetSearchRequestOf(RawQuery(p), p, None) : p \in AssemblyParams}

------------------------------------------------------------------------------
(* The actions: a handler up to its await, and from the answer on. *)

Init ==
    /\ pc = "idle"
    /\ req = NoRequest
    /\ calls = <<>>
    /\ env = None
    /\ resp = NoResponse
    /\ environ = None
    /\ settings = None
    /\ router = register_routes

\* items, from its entry to `await collection.features(...)`.
ItemsRequest(requests) ==
    /\ pc = "idle" /\ Served(ItemsRoute)
    /\ \E r \in requests :
        /\ req' = r
        /\ calls' = <<ItemsCall(r)>>
        /\ pc' = "awaiting"
    /\ UNCHANGED <<env, resp, config>>

\* item, from its entry to the NoPrimaryKey raise or to the await.
ItemRequest(requests) ==
    /\ pc = "idle" /\ Served(ItemRoute)
    /\ \E r \in requests :
        /\ req' = r
        /\ IF ItemNoPrimaryKey(r)
           THEN /\ resp' = Raise("NoPrimaryKey", <<"No primary key is set on this table">>)
                /\ calls' = <<>>
                /\ pc' = "done"
           ELSE /\ resp' = resp
                /\ calls' = <<ItemCall(r)>>
                /\ pc' = "awaiting"
    /\ UNCHANGED <<env, config>>

\* get_search, from its entry to a raise or to `await pgstac_search(...)`.
GetSearchRequest(requests) ==
    /\ pc = "idle" /\ Served(GetSearchRoute)
    /\ \E r \in requests :
        /\ req' = r
        /\ IF ~IsNone(GetSearchError(r))
           THEN /\ resp' = Val(GetSearchError(r))
                /\ calls' = <<>>
                /\ pc' = "done"
           ELSE /\ resp' = resp
                /\ calls' = <<GetSearchCall(r)>>
                /\ pc' = "awaiting"
    /\ UNCHANGED <<env, config>>

\* post_search, from its entry to `await pgstac_search(...)`.
PostSearchRequest(requests) ==
    /\ pc = "idle" /\ Served(PostSearchRoute)
    /\ \E r \in requests :
        /\ req' = r
        /\ calls' = <<PostSearchCall(r)>>
        /\ pc' = "awaiting"
    /\ UNCHANGED <<env, resp, config>>

\* The backend answers with an envelope and the handler runs to its end.
ItemsReturn(envelopes) ==
    /\ pc = "awaiting" /\ req.handler = "items"
    /\ \E e \in envelopes : env' = Some(e) /\ resp' = ItemsResult(req, e)
    /\ pc' = "done"
    /\ UNCHANGED <<req, calls, config>>

ItemReturn(envelopes) ==
    /\ pc = "awaiting" /\ req.handler = "item"
    /\ \E e \in envelopes : env' = Some(e) /\ resp' = ItemResult(req, e)
    /\ pc' = "done"
    /\ UNCHANGED <<req, calls, config>>

GetSearchReturn(envelopes) ==
    /\ pc = "awaiting" /\ req.handler = "get_search"
    /\ \E e \in envelopes : env' = Some(e) /\ resp' = GetSearchResult(req, e)
    /\ pc' = "done"
    /\ UNCHANGED <<req, calls, config>>

PostSearchReturn(envelopes) ==
    /\ pc = "awaiting" /\ req.handler = "post_search"
    /\ \E e \in envelopes : env' = Some(e) /\ resp' = PostSearchResult(req, e)
    /\ pc' = "done"
    /\ UNCHANGED <<req, calls, config>>

\* The awaited backend call raises: the error leaves the handler as it is.
BackendRaises ==
    /\ pc = "awaiting"
    /\ resp' = Propagate(calls[Len(calls)])
    /\ pc' = "done"
    /\ UNCHANGED <<req, calls, env, config>>

\* The task ends; the next request starts from nothing of this one.
Finish ==
    /\ pc = "done"
    /\ pc' = "idle"
    /\ req' = NoRequest
    /\ calls' = <<>>
    /\ env' = None
    /\ resp' = NoResponse
    /\ UNCHANGED config

------------------------------------------------------------------------------
(* Specifications: the same handlers over three sets of inputs. *)

\* Every handler and output type, over pages of features.
Next ==
    \/ ItemsRequest(PageItemsRequests)
    \/ ItemRequest(PageItemRequests)
    \/ GetSearchRequest(PageGetSearchRequests)
    \/ PostSearchRequest(PagePostSearchRequests)
    \/ ItemsReturn(PageEnvelopes)
    \/ ItemReturn(PageEnvelopes)
    \/ GetSearchReturn(PageEnvelopes)
    \/ PostSearchReturn(PageEnvelopes)
    \/ BackendRaises
    \/ Finish

Spec == Init /\ [][Next]_vars

\* The paged handlers over query strings and next/prev tokens.
NextPaging ==
    \/ ItemsRequest(TokenItemsRequests)
    \/ GetSearchRequest(TokenGetSearchRequests)
    \/ PostSearchRequest(TokenPostSearchRequests)
    \/ ItemsReturn(TokenEnvelopes)
    \/ GetSearchReturn(TokenEnvelopes)
    \/ PostSearchReturn(TokenEnvelopes)
    \/ BackendRaises
    \/ Finish

SpecPaging == Init /\ [][NextPaging]_vars

\* GET /search over the parameters its request is assembled from.
NextAssembly ==
    \/ GetSearchRequest(AssemblyGetSearchRequests)
    \/ GetSearchReturn(EmptyEnvelopes)
    \/ BackendRaises
    \/ Finish

SpecAssembly == Init /\ [][NextAssembly]_vars

\* The request a client makes when it follows the next link of a page: a GET
\* of the link's href, with the output type it asked for before.
NextLinkRequest(r, response) ==
    LET link == SelectSeq(response.body.links, LAMBDA l : l.rel = "next")[1]
    IN  IF link.href.route = "items"
        THEN ItemsRequestOf(link.href.query, r.collection, r.output_type)
        ELSE GetSearchRequestOf(link.href.query, ParamsOf(link.href.query), r.output_type)

\* The next link of the page is requested: the handler of its route runs
\* from its entry to a raise or to its await, as for any other request.
FollowNextLink ==
    /\ pc = "done" /\ resp.status = "ok" /\ resp.shape = "FeatureCollection"
    /\ \E i \in 1..Len(resp.body.links) : resp.body.links[i].rel = "next"
    /\ LET r == NextLinkRequest(req, resp)
       IN  /\ req' = r
           /\ IF r.handler = "items"
              THEN /\ Served(ItemsRoute)
                   /\ resp' = NoResponse
                   /\ calls' = <<ItemsCall(r)>>
                   /\ pc' = "awaiting"
              ELSE IF ~IsNone(GetSearchError(r))
              THEN /\ Served(GetSearchRoute)
                   /\ resp' = Val(GetSearchError(r))
                   /\ calls' = <<>>
                   /\ pc' = "done"
              ELSE /\ Served(GetSearchRoute)
                   /\ resp' = NoResponse
                   /\ calls' = <<GetSearchCall(r)>>
                   /\ pc' = "awaiting"
    /\ env' = None
    /\ UNCHANGED config

\* The paged handlers, with clients that follow the next links.
NextFollow ==
    \/ ItemsRequest(TokenItemsRequests)
    \/ GetSearchRequest(TokenGetSearchRequests)
    \/ PostSearchRequest(BodyPostSearchRequests)
    \/ ItemsReturn(TokenEnvelopes)
    \/ GetSearchReturn(TokenEnvelopes)
    \/ PostSearchReturn(TokenEnvelopes)
    \/ FollowNextLink
    \/ BackendRaises
    \/ Finish

SpecFollow == Init /\ [][NextFollow]_vars

\* The settings are loaded once, from any value of TIPG_STAC_CORS_ORIGINS.
CorsChars == {"a", "b", " ", ","}
CorsEnvironments == {None} \cup {Some(t) : t \in SeqsUpTo(CorsChars, MaxOriginsLen)}

InitSettings ==
    /\ pc = "idle"
    /\ req = NoRequest
    /\ calls = <<>>
    /\ env = None
    /\ resp = NoResponse
    /\ environ \in CorsEnvironments
    /\ settings = None
    /\ router = register_routes

\* `APISettings()`
LoadSettings ==
    /\ IsNone(settings)
    /\ settings' = Some(APISettings(environ))
    /\ UNCHANGED <<pc, req, calls, env, resp, environ, router>>

NextSettings == LoadSettings

SpecSettings == InitSettings /\ [][NextSettings]_vars

------------------------------------------------------------------------------
(* Properties of pagination links (checked under SpecPaging). *)

\* The links of the response with relation rel, when the response is a
\* FeatureCollection document (the GeoJSON and HTML outputs).
IsDocument == pc = "done" /\ resp.status = "ok" /\ resp.shape = "FeatureCollection"
LinksOf(rel) == SelectSeq(resp.body.links, LAMBDA l : l.rel = rel)
OffsetsOf(link) == SelectSeq(link.href.query, LAMBDA q : q.k = "offset")
OthersOf(query) == SelectSeq(query, LAMBDA q : q.k /= "offset")

\* C1: in List Items, whenever the envelope carries a next token N, the
\* response has a next link whose query string holds exactly one offset
\* parameter, equal to N, and every other name/value pair of the request's
\* query string unchanged, each value of a repeated parameter included.
C1_NextLinkKeepsEveryPair ==
    (IsDocument /\ req.handler = "items" /\ ~IsNone(Val(env).next))
    => /\ Len(LinksOf("next")) = 1
       /\ LET link == LinksOf("next")[1]
          IN  /\ Len(OffsetsOf(link)) = 1
              /\ OffsetsOf(link)[1].v = Val(Val(env).next)
              /\ Range(OthersOf(link.href.query)) = Range(OthersOf(req.qs))

\* C2: in List Items and Search, for a request that carries offset=T and an
\* envelope whose prev token is P, the prev link holds exactly one offset
\* parameter and its value is P.
C2_PrevLinkHasOneOffset ==
    (IsDocument /\ "offset" \in Keys(req.qs) /\ ~IsNone(Val(env).prev))
    => /\ Len(LinksOf("prev")) = 1
       /\ LET link == LinksOf("prev")[1]
          IN  /\ Len(OffsetsOf(link)) = 1
              /\ OffsetsOf(link)[1].v = Val(Val(env).prev)
              /\ link.href.route = (IF req.handler = "items" THEN "items" ELSE "get_search")

\* A prev link was emitted for a request whose own offset differs from the
\* envelope's prev token.
C2_Witness ==
    /\ IsDocument /\ req.handler = "get_search"
    /\ QueryValue(req.qs, "offset") = Some("t1")
    /\ Val(env).prev = Some("t0")
    /\ Len(LinksOf("prev")) = 1

\* C3: tokens are echoed verbatim.  The token handed to the backend by List
\* Items and GET Search is the request's offset parameter (no token when the
\* request has none), and every offset written into a next or prev link is
\* the envelope's next or prev token.
C3_TokensVerbatim ==
    /\ (calls /= <<>> /\ req.handler = "items")
        => calls[1].token = QueryValue(req.qs, "offset")
    /\ (calls /= <<>> /\ req.handler = "get_search")
        => IF IsNone(QueryValue(req.qs, "offset"))
           THEN "token" \notin DOMAIN calls[1].search
           ELSE /\ "token" \in DOMAIN calls[1].search
                /\ calls[1].search.token = LastValue(req.qs, "offset")
    /\ IsDocument
        => /\ \A i \in 1..Len(LinksOf("next")) :
                \A j \in 1..Len(OffsetsOf(LinksOf("next")[i])) :
                    Some(OffsetsOf(LinksOf("next")[i])[j].v) = Val(env).next
           /\ \A i \in 1..Len(LinksOf("prev")) :
                \A j \in 1..Len(OffsetsOf(LinksOf("prev")[i])) :
                    Some(OffsetsOf(LinksOf("prev")[i])[j].v) = Val(env).prev

\* A request with offset=t0 was answered with next token t2: the backend got
\* t0 and the next link carries t2.
C3_Witness ==
    /\ IsDocument /\ req.handler = "items"
    /\ calls[1].token = Some("t0")
    /\ Val(env).next = Some("t2")
    /\ Len(LinksOf("next")) = 1
    /\ OffsetsOf(LinksOf("next")[1]) = <<Pair("offset", "t2")>>

------------------------------------------------------------------------------
(* Properties of GET /search request assembly (checked under SpecAssembly). *)

IsGetSearch == pc /= "idle" /\ req.handler = "get_search"

BothOpen(parts) ==
    Len(parts) = 2 /\ parts[1] \in {"..", ""} /\ parts[2] \in {"..", ""}

StartAfterEnd(parts) ==
    /\ Len(parts) = 2 /\ parts[1] \notin {"..", ""} /\ parts[2] \notin {"..", ""}
    /\ parse_rfc3339(parts[1]) > parse_rfc3339(parts[2])

Joined(parts) == IF Len(parts) = 1 THEN parts[1] ELSE parts[1] \o "/" \o parts[2]

DatetimeRejected ==
    pc = "done" /\ resp.status = "error" /\ resp.error = "InvalidDatetime" /\ calls = <<>>

DatetimeSent(text) ==
    /\ calls /= <<>>
    /\ "datetime" \in DOMAIN calls[1].search
    /\ calls[1].search.datetime = text

DatetimeNotSent == calls /= <<>> /\ "datetime" \notin DOMAIN calls[1].search

CommasOf(text) == {i \in 1..Len(text) : text[i] = ","}
SignOf(term) == IF term /= <<>> /\ term[1] \in {"+", "-"} THEN term[1] ELSE ""
NameOf(term) == Strip(IF SignOf(term) = "" THEN term ELSE Tail(term))

\* C5: the sortby text is split on commas and yields one {field, direction}
\* entry per term, in the same order; the field is the term without its
\* leading sign, trimmed, and the direction is "desc" exactly when the
\* leading sign is "-".  "-date,price" and " name" parse as in the examples.
C5_OneEntryPerTerm ==
    /\ ParseSortby(<<"-", "d", "a", "t", "e", ",", "p", "r", "i", "c", "e">>)
         = <<[field |-> <<"d", "a", "t", "e">>, direction |-> "desc"],
             [field |-> <<"p", "r", "i", "c", "e">>, direction |-> "asc"]>>
    /\ ParseSortby(<<" ", "n", "a", "m", "e">>)
         = <<[field |-> <<"n", "a", "m", "e">>, direction |-> "asc"]>>
    /\ (IsGetSearch /\ calls /= <<>> /\ ~IsNone(req.sortby) /\ Val(req.sortby) /= <<>>)
        => LET text == Strip(Val(req.sortby))
               terms == SplitComma(text)
               search == calls[1].search
           IN  /\ Len(terms) = Cardinality(CommasOf(text)) + 1
               /\ "sortby" \in DOMAIN search
               /\ Len(search.sortby) = Len(terms)
               /\ \A i \in 1..Len(terms) :
                    /\ search.sortby[i].field = NameOf(terms[i])
                    /\ search.sortby[i].direction
                         = (IF SignOf(terms[i]) = "-" THEN "desc" ELSE "asc")

\* C10: with a non-empty properties list the assembled request has a fields
\* object whose include set is the set of the names and whose exclude set is
\* empty; with no properties it has no fields entry.
C10_FieldsFromProperties ==
    (IsGetSearch /\ calls /= <<>>)
    => LET search == calls[1].search
       IN  IF ~IsNone(req.properties) /\ Len(Val(req.properties)) > 0
           THEN /\ "fields" \in DOMAIN search
                /\ search.fields.include = {Val(req.properties)[i] :
                                              i \in 1..Len(Val(req.properties))}
                /\ search.fields.exclude = {}
           ELSE "fields" \notin DOMAIN search

\* properties=["foo","bar"] was assembled into include {"foo","bar"}.
C10_Witness ==
    /\ IsGetSearch /\ calls /= <<>>
    /\ req.properties = Some(<<"foo", "bar">>)
    /\ "fields" \in DOMAIN calls[1].search
    /\ calls[1].search.fields = [include |-> {"foo", "bar"}, exclude |-> {}]

------------------------------------------------------------------------------
(* Properties of the handlers' outcomes (checked under Spec). *)

IsItem == pc /= "idle" /\ req.handler = "item"

\* C6: Get Single Item on a collection without an identifying column fails
\* with NoPrimaryKey whatever its other parameters, before any feature search.
C6_NoPrimaryKeyFirst ==
    (IsItem /\ IsNone(req.collection.id_column))
    => /\ pc = "done"
       /\ resp.status = "error" /\ resp.error = "NoPrimaryKey"
       /\ calls = <<>>
       /\ IsNone(env)

C6_Witness ==
    /\ IsItem /\ IsNone(req.collection.id_column)
    /\ req.output_type = Some("csv") /\ req.itemId = "i9"
    /\ resp.status = "error" /\ resp.error = "NoPrimaryKey"

\* C7: Get Single Item on a collection with an identifying column searches
\* with an id filter of exactly one value, the item id; an envelope without
\* items fails with NotFound, whose message names the item id and the
\* collection id, for every output type, and no body is produced.
C7_OneIdThenNotFound ==
    (IsItem /\ ~IsNone(req.collection.id_column))
    => /\ Len(calls) = 1
       /\ calls[1].fn = "features"
       /\ calls[1].collection = req.collection.id
       /\ calls[1].ids_filter = Some(<<req.itemId>>)
       /\ (pc = "done" /\ ~IsNone(env) /\ Len(Val(env).items) = 0)
           => /\ resp.status = "error" /\ resp.error = "NotFound"
              /\ \E i \in 1..Len(resp.message) : resp.message[i] = req.itemId
              /\ \E i \in 1..Len(resp.message) : resp.message[i] = req.collection.id
              /\ "body" \notin DOMAIN resp

C7_Witness ==
    /\ IsItem /\ pc = "done" /\ ~IsNone(env) /\ Val(env).items = <<>>
    /\ req.output_type = Some("ndjson") /\ req.itemId = "i9"
    /\ resp.status = "error" /\ resp.error = "NotFound"

\* What a response holds: flattened rows, or feature documents.
RowsOf(response) == IF response.shape = "row" THEN <<response.body>> ELSE response.body

IsFlattened(response) ==
    /\ response.shape \in {"rows", "row"}
    /\ \A i \in 1..Len(RowsOf(response)) :
        /\ "collectionId" \in DOMAIN RowsOf(response)[i]
        /\ "links" \notin DOMAIN RowsOf(response)[i]

IsFeatureDocument(response) ==
    CASE response.shape = "FeatureCollection" ->
            /\ response.body.type = "FeatureCollection"
            /\ \A i \in 1..Len(response.body.features) :
                "links" \in DOMAIN response.body.features[i]
      [] response.shape = "Feature" -> "links" \in DOMAIN response.body
      [] response.shape = "features" ->
            \A i \in 1..Len(response.body) : "links" \in DOMAIN response.body[i]
      [] OTHER -> FALSE

\* C8: in all four handlers a successful request for CSV, flat JSON or NDJSON
\* returns flattened rows and never a FeatureCollection or Feature document;
\* one for GeoJSON, HTML, GeoJSON-sequence or no type never returns rows.
C8_RowsExactlyForRowTypes ==
    (pc = "done" /\ resp.status = "ok")
    => IF req.output_type \in {Some("csv"), Some("json"), Some("ndjson")}
       THEN IsFlattened(resp) /\ ~IsFeatureDocument(resp)
       ELSE IsFeatureDocument(resp) /\ ~IsFlattened(resp)

C8_Witness ==
    /\ pc = "done" /\ resp.status = "ok"
    /\ req.handler = "post_search" /\ req.output_type = Some("ndjson")
    /\ IsFlattened(resp) /\ Len(resp.body) = 2

IsRows ==
    /\ pc = "done" /\ resp.status = "ok" /\ resp.shape = "rows"
    /\ req.handler \in {"items", "get_search", "post_search"}

\* C9 as stated: in the rows of List Items, GET Search and POST Search no key
\* is present with an absent or empty value, and a feature with absent
\* geometry has no geometry key.
C9_NoAbsentOrEmptyValue ==
    IsRows
    => \A i \in 1..Len(resp.body) :
        /\ \A k \in DOMAIN resp.body[i] :
            ~IsNone(resp.body[i][k]) /\ Val(resp.body[i][k]) /= ""
        /\ IsNone(Get(Val(env).items[i], "geometry")) => "geometry" \notin DOMAIN resp.body[i]

\* C9 as amended: no key is present with an absent (null) value, a property
\* whose value is null is dropped, a feature with absent geometry has no
\* geometry key; a value that is empty but not null is kept.
C9_NoAbsentValue ==
    IsRows
    => /\ Len(resp.body) = Len(Val(env).items)
       /\ \A i \in 1..Len(resp.body) :
            LET row == resp.body[i]
                feature == Val(env).items[i]
            IN  /\ \A k \in DOMAIN row : ~IsNone(row[k])
                /\ \A k \in DOMAIN Properties(feature) :
                     IF IsNone(Properties(feature)[k])
                     THEN k \notin DOMAIN row
                     ELSE k \in DOMAIN row /\ row[k] = Properties(feature)[k]
                /\ IF IsNone(Get(feature, "geometry"))
                   THEN "geometry" \notin DOMAIN row
                   ELSE row["geometry"] = feature["geometry"]

\* A row of a feature with null geometry, a null property and an empty one.
C9_Witness ==
    /\ IsRows /\ req.handler = "items" /\ Len(resp.body) = 1
    /\ DOMAIN resp.body[1] = {"collectionId", "itemId", "q"}
    /\ resp.body[1]["q"] = Some("")
    /\ "geometry" \in DOMAIN Val(env).items[1]

------------------------------------------------------------------------------
(* Properties of the settings (checked under SpecSettings). *)

\* The position of the n-th comma of a text; 0 before the first part and
\* one past the end after the last.
NthComma(text, n) ==
    IF n = 0 THEN 0
    ELSE IF n > Cardinality(CommasOf(text)) THEN Len(text) + 1
    ELSE CHOOSE c \in CommasOf(text) :
            Cardinality({d \in CommasOf(text) : d < c}) = n - 1

\* The text between the (n-1)-th and the n-th comma.
PartOf(text, n) == SubSeq(text, NthComma(text, n - 1) + 1, NthComma(text, n) - 1)

\* `part` is `raw` without the whitespace at its two ends.
IsTrimmedOf(part, raw) ==
    /\ part /= <<>> => (part[1] \notin Whitespace /\ part[Len(part)] \notin Whitespace)
    /\ \E l \in 0..Len(raw) :
        /\ l + Len(part) <= Len(raw)
        /\ SubSeq(raw, l + 1, l + Len(part)) = part
        /\ \A i \in (1..l) \cup ((l + Len(part) + 1)..Len(raw)) : raw[i] \in Whitespace

\* C11: cors_origins is always an ordered list of trimmed strings: a
\* configured value gives one entry per comma-separated part, in order, each
\* the part without its surrounding whitespace ("a, b ,c" gives a, b, c), and
\* an unset TIPG_STAC_CORS_ORIGINS gives the one-element list ["*"].
C11_CorsOriginsTrimmedList ==
    /\ parse_cors_origin(<<"a", ",", " ", "b", " ", ",", "c">>) = <<<<"a">>, <<"b">>, <<"c">>>>
    /\ ~IsNone(settings)
        => LET origins == Val(settings).cors_origins
           IN  IF IsNone(environ)
               THEN origins = <<<<"*">>>>
               ELSE /\ Len(origins) = Cardinality(CommasOf(Val(environ))) + 1
                    /\ \A n \in 1..Len(origins) :
                         IsTrimmedOf(origins[n], PartOf(Val(environ), n))

\* The settings were loaded from " a," : the entries are "a" and "".
C11_Witness ==
    /\ environ = Some(<<" ", "a", ",">>)
    /\ ~IsNone(settings)
    /\ Val(settings).cors_origins = <<<<"a">>, <<>>>>

------------------------------------------------------------------------------
(* Properties of the route table (checked under Spec). *)

IsBaseRoute(route) == route.owner = "tipg"

------------------------------------------------------------------------------
(* Properties of a page's links and records (checked under SpecPaging). *)

\* A paged handler was answered with an envelope for a GeoJSON or HTML
\* request, the two outputs that carry the page's links.
IsPageAnswered ==
    /\ pc = "done" /\ ~IsNone(env)
    /\ req.handler \in {"items", "get_search", "post_search"}
    /\ ResolveOutputType(req.output_type) \in {"geojson", "html"}

\* C13: in List Items, GET Search and POST Search, whenever the envelope
\* carries a prev token P the handler completes successfully and the response
\* has a prev link with offset=P, whether or not the request's query string
\* had an offset parameter; without a next token there is no next link and
\* without a prev token no prev link.
C13_PrevLinkWithOrWithoutOffset ==
    IsPageAnswered
    => IF resp.status /= "ok" THEN FALSE
       ELSE /\ ~IsNone(Val(env).prev)
                => /\ Len(LinksOf("prev")) = 1
                   /\ OffsetsOf(LinksOf("prev")[1]) = <<Pair("offset", Val(Val(env).prev))>>
            /\ IsNone(Val(env).next) => LinksOf("next") = <<>>
            /\ IsNone(Val(env).prev) => LinksOf("prev") = <<>>

------------------------------------------------------------------------------
(* Properties of the backend calls of a request (checked under Spec). *)

\* The backend call of the request was issued and raised.
BackendFailed == pc = "done" /\ calls /= <<>> /\ IsNone(env)

\* C14: every request is single-shot.  A handler issues at most one backend
\* call per request and never another one after it; NoPrimaryKey and
\* InvalidDatetime are raised with no backend call issued; when the backend
\* call fails, its error is the handler's outcome and no body is produced.
C14_SingleShot ==
    /\ [](/\ Len(calls) <= 1
          /\ pc = "awaiting" => Len(calls) = 1
          /\ (pc = "done" /\ resp.status = "error"
              /\ resp.error \in {"NoPrimaryKey", "InvalidDatetime"}) => calls = <<>>
          /\ BackendFailed
              => /\ resp.status = "error" /\ resp.error = "BackendError"
                 /\ resp.message = <<calls[1].fn>>
                 /\ "body" \notin DOMAIN resp)
    /\ [][calls /= <<>> => (calls' = calls \/ (pc = "done" /\ pc' = "idle"))]_vars

\* The catalog search of a GET /search request raised.
C14_Witness ==
    /\ BackendFailed /\ req.handler = "get_search"
    /\ calls = <<GetSearchCall(req)>>
    /\ resp = Raise("BackendError", <<"pgstac_search">>)

------------------------------------------------------------------------------
(* Properties of the output branching (checked under Spec). *)

\* The response class that List Items gives each output type.
ClassOf(output_type) ==
    CASE output_type \in {"csv", "ndjson", "geojsonseq"} -> "StreamingResponse"
      [] output_type = "json" -> "ORJSONResponse"
      [] output_type = "html" -> "TemplateResponse"
      [] output_type = "geojson" -> "GeoJSONResponse"

\* C15: for every negotiated output type Get Single Item answers with the
\* same kind of response as List Items: a streamed CSV download, a JSON body,
\* a streamed NDJSON download, a streamed GeoJSON sequence, the HTML template,
\* or a GeoJSON document (also when no type is negotiated).
C15_ItemBranchesAsItems ==
    (pc = "done" /\ resp.status = "ok" /\ req.handler \in {"items", "item"})
    => /\ resp.class = ClassOf(ResolveOutputType(req.output_type))
       /\ resp.media = ResolveOutputType(req.output_type)
       /\ resp.class = "StreamingResponse" <=> ~IsNone(resp.filename)

------------------------------------------------------------------------------
(* Properties of the assembled request (checked under SpecAssembly). *)

\* An Optional list that is absent or empty.
IsAbsentOrEmpty(value) == IsNone(value) \/ Val(value) = <<>>

\* C16: the limit sent to the catalog search is the supplied limit when it is
\* not 0 and default_features_limit when it is 0, and it is always present;
\* every other field of the assembled request (collections, ids, bbox, token,
\* query, filter, datetime, sortby, fields) whose value is absent or an empty
\* list is left out, never sent as empty.
C16_LimitAlwaysOthersOmitted ==
    (IsGetSearch /\ calls /= <<>>)
    => LET search == calls[1].search
       IN  /\ "limit" \in DOMAIN search
           /\ search.limit = (IF req.limit /= 0 THEN req.limit ELSE DefaultFeaturesLimit)
           /\ IF IsAbsentOrEmpty(req.collections_filter)
              THEN "collections" \notin DOMAIN search
              ELSE search.collections = Val(req.collections_filter)
           /\ IF IsAbsentOrEmpty(req.ids_filter)
              THEN "ids" \notin DOMAIN search
              ELSE search.ids = Val(req.ids_filter)
           /\ IF IsAbsentOrEmpty(req.bbox_filter)
              THEN "bbox" \notin DOMAIN search
              ELSE search.bbox = Val(req.bbox_filter)
           /\ IF IsNone(req.offset)
              THEN "token" \notin DOMAIN search
              ELSE search.token = Val(req.offset)
           /\ IsNone(req.query) => "query" \notin DOMAIN search
           /\ IsNone(req.cql_filter) => "filter" \notin DOMAIN search
           /\ IsAbsentOrEmpty(req.datetime_filter) => "datetime" \notin DOMAIN search
           /\ IsAbsentOrEmpty(req.sortby) => "sortby" \notin DOMAIN search
           /\ IsAbsentOrEmpty(req.properties) => "fields" \notin DOMAIN search
           /\ \A k \in DOMAIN search \cap ListKeys : search[k] /= <<>>

\* limit=0 with an empty collections list and ids: the default limit and the
\* ids were sent, and no collections entry.
C16_Witness ==
    /\ IsGetSearch /\ calls /= <<>>
    /\ req.limit = 0 /\ req.collections_filter = Some(<<>>)
    /\ req.ids_filter = Some(<<"a", "b">>)
    /\ calls[1].search.limit = DefaultFeaturesLimit
    /\ "collections" \notin DOMAIN calls[1].search
    /\ calls[1].search.ids = <<"a", "b">>

------------------------------------------------------------------------------
(* Properties of the records of a page (checked under Spec). *)

\* The records a successful response emits, and the id a record shows.
EmittedRecords ==
    IF resp.shape = "FeatureCollection" THEN resp.body.features ELSE resp.body

RecordId(record) ==
    IF resp.shape = "rows" THEN Get(record, "itemId") ELSE Get(record, "id")

\* C17: in List Items, GET Search and POST Search, for every output type,
\* the emitted records are as many as the envelope's items and in the same
\* order, each record's id is the id of the item at its position, and a
\* FeatureCollection's numberReturned is the number of items and its
\* numberMatched the envelope's matched count.
C17_RecordsAsEnvelope ==
    (pc = "done" /\ resp.status = "ok"
     /\ req.handler \in {"items", "get_search", "post_search"})
    => /\ Len(EmittedRecords) = Len(Val(env).items)
       /\ \A i \in 1..Len(EmittedRecords) :
            RecordId(EmittedRecords[i]) = Val(env).items[i]["id"]
       /\ resp.shape = "FeatureCollection"
            => /\ resp.body.numberReturned = Len(Val(env).items)
               /\ resp.body.numberMatched = Val(env).matched

------------------------------------------------------------------------------
(* Properties of following a next link (checked under SpecFollow). *)

\* The criteria of a catalog search: everything but the paging token.
Criteria(search) == [k \in DOMAIN search \ {"token"} |-> search[k]]

\* C18: paging a search forward keeps the search.  When the next link of a
\* GET Search or POST Search response is requested, the catalog search that
\* is issued has the criteria of the search that produced the link and the
\* envelope's next token as its token; as this holds of every follow-up, it
\* holds after any number of them.
C18_NextLinkKeepsSearch ==
    [][(/\ pc = "done" /\ pc' = "awaiting"
        /\ req.handler \in {"get_search", "post_search"})
       => /\ calls'[1].fn = "pgstac_search"
          /\ Criteria(calls'[1].search) = Criteria(calls[1].search)
          /\ "token" \in DOMAIN calls'[1].search
          /\ calls'[1].search.token = Val(Val(env).next)]_vars

====
